---- MODULE Spec2Model ----
(***************************************************************************)
(* State-machine model of the g4f-api failover core:                       *)
(*   - the success cache            (backend/background.py)                *)
(*   - the failover selector        (backend/routes.py)                    *)
(*   - the provider health prober   (backend/background.py)                *)
(*   - the completion handler       (backend/routes.py)                    *)
(***************************************************************************)
EXTENDS Integers, Sequences, FiniteSets, TLC

VARIABLES
    success_cache,               \* background.success_cache: list of (provider, model, time)
    now,                         \* datetime.now(), in minutes
    all_working_provider_names,  \* provider_and_models.all_working_provider_names
    default_provider,            \* g4f.get_model_and_provider(model, None, False)[1].__name__
    last_op,                     \* history: the cache operation that ran last
    sel_failed,                  \* selector input: failed_combinations
    sel_offset,                  \* selector input: offset
    sel_result,                  \* selector output
    sel_pc,                      \* "ready" before the selector call, "done" after
    provider_failures,           \* background.provider_failures: provider -> error_type
    lock,                        \* background.lock is held
    upc,                         \* per invocation of update_working_providers: where it is
    probe,                       \* per invocation and provider: the test_provider task
    probe_ret,                   \* history: what each probe's ai_respond call did
    queue,                       \* per invocation: the asyncio.Queue of (provider, result)
    unfinished,                  \* per invocation: the queue's count of items not yet task_done
    now_working_providers,       \* per invocation: the set the consumer fills
    producer,                    \* per invocation: the producer() task
    consumer,                    \* per invocation: the consumer() task
    handed,                      \* history: the names passed to update_model_providers
    working_before,              \* history: per invocation, the working set when it started
    probes,                      \* number of probes that entered the semaphore
    last_step,                   \* history: the prober step taken last, its invocation,
                                 \* and the number of cache entries it found
    public_ip,                   \* get_public_ip(), cached for the life of the process
    rpc,                         \* where the post_completion request is
    params,                      \* the request's CompletionParams (model, provider)
    nofail,                      \* post_completion local
    model_name,                  \* post_completion local
    provider_name,               \* post_completion local
    attempt,                     \* post_completion local: the loop index
    ip_detected_response,        \* post_completion local
    failed_combinations,         \* post_completion local
    calls,                       \* history: chat.create calls made by the request
    prev_call,                   \* history: the last chat.create call and its outcome
    raised,                      \* history: the pairs whose chat.create call raised
    first_call,                  \* history: the first chat.create call and its outcome
    response,                    \* what the request returned or raised
    requests,                    \* number of requests received
    thr,                         \* per thread: the success-cache operation it runs,
                                 \* where it is in it, and its temporaries
    cleared,                     \* history: clear_success_cache() has run
    cache0                       \* history: the cache before the threads ran

cache_vars == <<success_cache, now, last_op>>
registry_vars == <<all_working_provider_names, default_provider>>
sel_vars == <<sel_failed, sel_offset, sel_result, sel_pc>>
task_vars == <<probe, probe_ret, queue, unfinished, now_working_providers,
               producer, consumer>>
probe_vars == <<provider_failures, lock, upc, task_vars, handed, working_before,
                probes, last_step>>
req_vars == <<public_ip, rpc, params, nofail, model_name, provider_name, attempt,
              ip_detected_response, failed_combinations, calls, prev_call,
              raised, first_call, response, requests>>
thread_vars == <<thr, cleared, cache0>>
vars == <<cache_vars, registry_vars, sel_vars, probe_vars, req_vars, thread_vars>>

(***************************************************************************)
(* Bounds of the model                                                     *)
(***************************************************************************)
MaxTime == 60        \* the clock stops advancing here
MaxCacheLen == 2     \* longest cache drawn as a selector input
MaxOffset == 2       \* largest offset drawn as a selector input
SelNow == 40         \* the clock at the selector call, when it is checked alone
MaxProbes == 4       \* probes started in one run, over all cycles
MaxProbeCache == 1   \* entries completion requests record while the prober is checked

TickSteps == {10, 15}   \* minutes the clock may advance in one step

(***************************************************************************)
(* Provider registry (backend.dependencies, g4f)                           *)
(***************************************************************************)
\* base_working_providers_map: the catalog, in iteration order
ProviderOrder == <<"P1", "P2">>
Providers == {ProviderOrder[i] : i \in 1..Len(ProviderOrder)}

\* the model priority list
BEST_MODELS_ORDERED == <<"m1", "m2">>
Models == {BEST_MODELS_ORDERED[i] : i \in 1..Len(BEST_MODELS_ORDERED)}

\* CompletionProvider.supported_models of each catalog provider
supported_models(p) == IF p = "P1" THEN {"m1"} ELSE {"m1", "m2"}

\* a default provider g4f may resolve that is no catalog provider
\* (a retry wrapper), and the outcome of a failed resolution
RetryProvider == "RetryProvider"
Unresolved == "ModelNotFoundError"
DefaultChoices == Providers \cup {RetryProvider, Unresolved}

None == "None"
\* raise HTTPException(status_code=500, ...)
NotFound == [error |-> "HTTPException", status_code |-> 500]

Pairs == Models \X Providers      \* (model, provider), as in failed_combinations

\* position of x in the sequence s (0 when absent)
IndexOf(s, x) == IF \E i \in 1..Len(s) : s[i] = x
                 THEN CHOOSE i \in 1..Len(s) : s[i] = x /\ \A j \in 1..(i-1) : s[j] # x
                 ELSE 0

(***************************************************************************)
(* Success cache (backend/background.py)                                   *)
(***************************************************************************)
SUCCESS_CACHE_TTL_MINUTES == 30

Entry(p, m, t) == [provider |-> p, model |-> m, time |-> t]

\* cutoff_time = now - TTL; keep entry[2] > cutoff_time
_clean_expired_cache_keepall(cache, t) == cache
_clean_expired_cache(cache, t) ==
    SelectSeq(cache, LAMBDA e : e.time > t - SUCCESS_CACHE_TTL_MINUTES)

\* drop the entries of the same pair, insert at index 0, purge
add_successful_provider_nodedup(cache, p, m, t) ==
    _clean_expired_cache(<<Entry(p, m, t)>> \o cache, t)
add_successful_provider_append(cache, p, m, t) ==
    _clean_expired_cache(
        SelectSeq(cache, LAMBDA e : ~(e.provider = p /\ e.model = m))
            \o <<Entry(p, m, t)>>, t)
add_successful_provider(cache, p, m, t) ==
    _clean_expired_cache(
        <<Entry(p, m, t)>>
            \o SelectSeq(cache, LAMBDA e : ~(e.provider = p /\ e.model = m)), t)

\* the loop of get_cached_successful_providers over the purged cache:
\* skip a provider already seen, skip a model other than the filter
\* (a filter of None, or an empty one, filters nothing)
RECURSIVE CachedLoop(_, _, _, _)
CachedLoop(cache, i, model_filter, successful_providers) ==
    IF i > Len(cache) THEN successful_providers
    ELSE LET e == cache[i]
             seen == {successful_providers[k] : k \in 1..Len(successful_providers)}
         IN IF e.provider \in seen
               THEN CachedLoop(cache, i + 1, model_filter, successful_providers)
            ELSE IF model_filter # None /\ model_filter # "" /\ e.model # model_filter
               THEN CachedLoop(cache, i + 1, model_filter, successful_providers)
            ELSE CachedLoop(cache, i + 1, model_filter,
                            Append(successful_providers, e.provider))

get_cached_successful_providers(cache, model_filter, t) ==
    CachedLoop(_clean_expired_cache(cache, t), 1, model_filter, <<>>)

clear_success_cache_keep(cache) == cache
clear_success_cache(cache) == <<>>

(***************************************************************************)
(* Failover selector (backend/routes.py)                                   *)
(***************************************************************************)
_is_provider_model_available(name, model, working) ==
    /\ name \in working
    /\ model \in supported_models(name)

\* all_working_provider_names as a list: the catalog order, working ones only
WorkingList(working) == SelectSeq(ProviderOrder, LAMBDA p : p \in working)

\* first element of seq that is in accepted, or None: a for loop returning
\* at its first hit
FirstHit(seq, accepted) ==
    LET hits == SelectSeq(seq, LAMBDA x : x \in accepted)
    IN IF Len(hits) > 0 THEN hits[1] ELSE None

NofailParams(model, provider) == [model |-> model, provider |-> provider]

\* the body of the loop for one model that is resolved and not skipped:
\* priorities 1 to 4, None when none of them returns
TryModel_p2_unchecked(model, failed, cache, working, dflt, t) ==
    LET ok == {p \in Providers : /\ _is_provider_model_available(p, model, working)
                                 /\ <<model, p>> \notin failed}
        p1 == FirstHit(get_cached_successful_providers(cache, model, t), ok)
        p2 == IF dflt \in working THEN dflt ELSE None
        p3 == FirstHit(get_cached_successful_providers(cache, None, t), ok)
        p4 == FirstHit(WorkingList(working), ok)
    IN IF p1 # None THEN p1
       ELSE IF p2 # None THEN p2
       ELSE IF p3 # None THEN p3
       ELSE p4
TryModel_no_p4(model, failed, cache, working, dflt, t) ==
    LET ok == {p \in Providers : /\ _is_provider_model_available(p, model, working)
                                 /\ <<model, p>> \notin failed}
        p1 == FirstHit(get_cached_successful_providers(cache, model, t), ok)
        p2 == IF dflt \in working /\ <<model, dflt>> \notin failed
              THEN dflt ELSE None
        p3 == FirstHit(get_cached_successful_providers(cache, None, t), ok)
    IN IF p1 # None THEN p1
       ELSE IF p2 # None THEN p2
       ELSE p3
TryModel_default_first(model, failed, cache, working, dflt, t) ==
    LET ok == {p \in Providers : /\ _is_provider_model_available(p, model, working)
                                 /\ <<model, p>> \notin failed}
        p1 == FirstHit(get_cached_successful_providers(cache, model, t), ok)
        p2 == IF dflt \in working /\ <<model, dflt>> \notin failed
              THEN dflt ELSE None
        p3 == FirstHit(get_cached_successful_providers(cache, None, t), ok)
        p4 == FirstHit(WorkingList(working), ok)
    IN IF p2 # None THEN p2
       ELSE IF p1 # None THEN p1
       ELSE IF p3 # None THEN p3
       ELSE p4
TryModel(model, failed, cache, working, dflt, t) ==
    LET ok == {p \in Providers : /\ _is_provider_model_available(p, model, working)
                                 /\ <<model, p>> \notin failed}
        p1 == FirstHit(get_cached_successful_providers(cache, model, t), ok)
        p2 == IF dflt \in working /\ <<model, dflt>> \notin failed
              THEN dflt ELSE None
        p3 == FirstHit(get_cached_successful_providers(cache, None, t), ok)
        p4 == FirstHit(WorkingList(working), ok)
    IN IF p1 # None THEN p1
       ELSE IF p2 # None THEN p2
       ELSE IF p3 # None THEN p3
       ELSE p4

\* for model in BEST_MODELS_ORDERED, from index i on
RECURSIVE SelectLoop(_, _, _, _, _, _, _)
SelectLoop(i, offset, failed, cache, working, dflt, t) ==
    IF i > Len(BEST_MODELS_ORDERED) THEN NotFound
    ELSE LET model == BEST_MODELS_ORDERED[i]
         IN IF dflt[model] = Unresolved
               THEN SelectLoop(i + 1, offset, failed, cache, working, dflt, t)
            ELSE IF offset > 0
               THEN SelectLoop(i + 1, offset - 1, failed, cache, working, dflt, t)
            ELSE LET p == TryModel(model, failed, cache, working, dflt[model], t)
                 IN IF p # None THEN NofailParams(model, p)
                    ELSE SelectLoop(i + 1, offset, failed, cache, working, dflt, t)

get_nofail_params_excluding_failed(failed, offset, cache, working, dflt, t) ==
    SelectLoop(1, offset, failed, cache, working, dflt, t)

\* get_nofail_params: the same loop without the exclusion tests
get_nofail_params(offset, cache, working, dflt, t) ==
    SelectLoop(1, offset, {}, cache, working, dflt, t)

(***************************************************************************)
(* Idle values of each part of the state                                   *)
(***************************************************************************)
NoOutcome == [kind |-> "none", text |-> <<>>, error |-> None]

NoOp == [op |-> "none", provider |-> None, model |-> None, result |-> <<>>,
         was_present |-> FALSE, had_expired |-> FALSE]

SelIdle ==
    /\ sel_failed = {}
    /\ sel_offset = 0
    /\ sel_result = None
    /\ sel_pc = "idle"

\* the invocations of update_working_providers that may be alive at once
Invocations == {1, 2}

ProbeIdle ==
    /\ provider_failures = [p \in Providers |-> None]
    /\ lock = FALSE
    /\ upc = [t \in Invocations |-> "idle"]
    /\ probe = [t \in Invocations |-> [p \in Providers |-> "none"]]
    /\ probe_ret = [t \in Invocations |-> [p \in Providers |-> NoOutcome]]
    /\ queue = [t \in Invocations |-> <<>>]
    /\ unfinished = [t \in Invocations |-> 0]
    /\ now_working_providers = [t \in Invocations |-> {}]
    /\ producer = [t \in Invocations |-> "none"]
    /\ consumer = [t \in Invocations |-> "none"]
    /\ handed = [t \in Invocations |-> {}]
    /\ working_before = [t \in Invocations |-> {}]
    /\ probes = 0
    /\ last_step = <<"none", 0, 0>>

\* ip_detected_response: CompletionResponse | None = None
NoResponse == [completion |-> <<>>, model |-> None, provider |-> None]
\* no chat.create call made yet by the request
NoCall == [model |-> None, provider |-> None, outcome |-> NoOutcome]
\* the request has neither returned nor raised
NoResult == [kind |-> "none", body |-> NoResponse]

\* the threads that may run a success-cache operation at once
Threads == {1, 2}
\* a thread that runs no operation of the cache
NoThread == [pc |-> "idle", op |-> "none", provider |-> None, model |-> None,
             tmp |-> <<>>, result |-> <<>>]
ThreadsIdle ==
    /\ thr = [t \in Threads |-> NoThread]
    /\ cleared = FALSE
    /\ cache0 = <<>>

\* no completion request has been received
ReqIdle ==
    /\ public_ip = None
    /\ rpc = "idle"
    /\ params = [model |-> None, provider |-> None]
    /\ nofail = FALSE
    /\ model_name = None
    /\ provider_name = None
    /\ attempt = 0
    /\ ip_detected_response = NoResponse
    /\ failed_combinations = {}
    /\ calls = 0
    /\ prev_call = NoCall
    /\ raised = {}
    /\ first_call = NoCall
    /\ response = NoResult
    /\ requests = 0

\* a cache the operations can leave behind: one entry per pair, newest first
DistinctPairs(cache) ==
    \A i, j \in 1..Len(cache) :
        (cache[i].provider = cache[j].provider /\ cache[i].model = cache[j].model)
            => i = j
NewestFirst(cache) ==
    \A i, j \in 1..Len(cache) : i < j => cache[i].time >= cache[j].time

(***************************************************************************)
(* SpecCache: record, query and clear run one after another, and the clock *)
(***************************************************************************)
Record(p, m) ==
    /\ success_cache' = add_successful_provider(success_cache, p, m, now)
    /\ last_op' = [op |-> "record", provider |-> p, model |-> m, result |-> <<>>,
                   was_present |-> \E i \in 1..Len(success_cache) :
                        success_cache[i].provider = p /\ success_cache[i].model = m,
                   had_expired |-> \E i \in 1..Len(success_cache) :
                        now - success_cache[i].time > SUCCESS_CACHE_TTL_MINUTES]
    /\ UNCHANGED <<now, registry_vars, sel_vars, req_vars, thread_vars, probe_vars>>

Query(model_filter) ==
    /\ success_cache' = _clean_expired_cache(success_cache, now)
    /\ last_op' = [op |-> "query", provider |-> None, model |-> model_filter,
                   result |-> get_cached_successful_providers(success_cache, model_filter, now),
                   was_present |-> FALSE,
                   had_expired |-> \E i \in 1..Len(success_cache) :
                        now - success_cache[i].time > SUCCESS_CACHE_TTL_MINUTES]
    /\ UNCHANGED <<now, registry_vars, sel_vars, req_vars, thread_vars, probe_vars>>

Clear ==
    /\ success_cache' = clear_success_cache(success_cache)
    /\ last_op' = [op |-> "clear", provider |-> None, model |-> None, result |-> <<>>,
                   was_present |-> FALSE,
                   had_expired |-> \E i \in 1..Len(success_cache) :
                        now - success_cache[i].time > SUCCESS_CACHE_TTL_MINUTES]
    /\ UNCHANGED <<now, registry_vars, sel_vars, req_vars, thread_vars, probe_vars>>

Tick ==
    /\ \E d \in TickSteps : now + d <= MaxTime /\ now' = now + d
    /\ last_op' = [NoOp EXCEPT !.op = "tick"]
    /\ UNCHANGED <<success_cache, registry_vars, sel_vars, req_vars, thread_vars, probe_vars>>

InitCache ==
    /\ success_cache = <<>>
    /\ now = 0
    /\ last_op = NoOp
    /\ all_working_provider_names = Providers
    /\ default_provider = [m \in Models |-> RetryProvider]
    /\ SelIdle
    /\ ProbeIdle
    /\ ReqIdle
    /\ ThreadsIdle

NextCache ==
    \/ \E p \in Providers, m \in Models : Record(p, m)
    \/ \E f \in Models \cup {None} : Query(f)
    \/ Clear
    \/ Tick

SpecCache == InitCache /\ [][NextCache]_vars

(***************************************************************************)
(* Claims on the success cache, checked under SpecCache                    *)
(***************************************************************************)
EntryAge(e) == now - e.time

\* C4: immediately after add_successful_provider(p, m), whatever the cache
\* held before, get_cached_successful_providers(model_filter=m) returns a
\* list whose first element is p.
C4_RecordThenQueryFirst ==
    last_op.op = "record" =>
        LET r == get_cached_successful_providers(success_cache, last_op.model, now)
        IN Len(r) > 0 /\ r[1] = last_op.provider

\* the record ran on a cache that already held another provider for the model
C4_Witness ==
    /\ last_op.op = "record"
    /\ \E i \in 2..Len(success_cache) :
          /\ success_cache[i].model = last_op.model
          /\ success_cache[i].provider # last_op.provider

\* C5: after any sequence of record/query/clear operations run one after
\* another the cache holds at most one entry per (provider, model) pair and
\* is ordered most-recent-first; right after a record, also of a pair that
\* was already recorded, the pair has exactly one entry and it is the first.
C5_DistinctNewestFirst ==
    /\ DistinctPairs(success_cache)
    /\ NewestFirst(success_cache)
    /\ last_op.op = "record" =>
          /\ Len(success_cache) > 0
          /\ success_cache[1].provider = last_op.provider
          /\ success_cache[1].model = last_op.model
          /\ Cardinality({i \in 1..Len(success_cache) :
                            /\ success_cache[i].provider = last_op.provider
                            /\ success_cache[i].model = last_op.model}) = 1

\* the pair recorded last was in the cache already, behind another entry
C5_Witness ==
    /\ last_op.op = "record"
    /\ last_op.was_present
    /\ Len(success_cache) >= 3

\* C6: an entry recorded more than the TTL ago is in no query result (every
\* provider a query returns has an entry within the TTL that passes the
\* filter), and it is gone from the stored list once a record, query or
\* clear has completed.
C6_ExpiredPurged ==
    /\ last_op.op = "query" =>
          \A k \in 1..Len(last_op.result) :
              \E i \in 1..Len(success_cache) :
                  /\ success_cache[i].provider = last_op.result[k]
                  /\ last_op.model \in {None, success_cache[i].model}
                  /\ EntryAge(success_cache[i]) <= SUCCESS_CACHE_TTL_MINUTES
    /\ last_op.op \in {"record", "query", "clear"} =>
          \A i \in 1..Len(success_cache) :
              EntryAge(success_cache[i]) <= SUCCESS_CACHE_TTL_MINUTES

\* a query ran on a cache holding an entry older than the TTL and still
\* returned a younger one
C6_Witness ==
    /\ last_op.op = "query"
    /\ last_op.had_expired
    /\ Len(last_op.result) > 0

(***************************************************************************)
(* SpecSelect: the selector applied to inputs drawn from bounded sets      *)
(***************************************************************************)
\* sequences without repetition over S, of length at most n
RECURSIVE SeqsUpTo(_, _)
SeqsUpTo(S, n) ==
    IF n = 0 THEN {<<>>}
    ELSE LET shorter == SeqsUpTo(S, n - 1)
         IN shorter \cup
            {Append(s, x) : s \in {q \in shorter : Len(q) = n - 1},
                            x \in S} 

NoRepeat(s) == \A i, j \in 1..Len(s) : s[i] = s[j] => i = j

\* the times of the drawn entries: one older than the TTL, one within it
SelTimes == {SelNow - SUCCESS_CACHE_TTL_MINUTES - 10, SelNow - 20}

SelCaches ==
    LET pairSeqs == {s \in SeqsUpTo(Providers \X Models, MaxCacheLen) : NoRepeat(s)}
    IN UNION {
         {c \in [1..Len(s) -> [provider : Providers, model : Models, time : SelTimes]] :
              /\ \A i \in 1..Len(s) : c[i].provider = s[i][1] /\ c[i].model = s[i][2]
              /\ NewestFirst(c)}
         : s \in pairSeqs}

InitSelect ==
    /\ success_cache \in SelCaches
    /\ now = SelNow
    /\ last_op = NoOp
    /\ all_working_provider_names \in SUBSET Providers
    /\ default_provider \in [Models -> DefaultChoices]
    /\ sel_failed \in SUBSET Pairs
    /\ sel_offset \in 0..MaxOffset
    /\ sel_result = None
    /\ sel_pc = "ready"
    /\ ProbeIdle
    /\ ReqIdle
    /\ ThreadsIdle

SelectCall ==
    /\ sel_pc = "ready"
    /\ sel_result' = get_nofail_params_excluding_failed(
                        sel_failed, sel_offset, success_cache,
                        all_working_provider_names, default_provider, now)
    /\ success_cache' = _clean_expired_cache(success_cache, now)
    /\ sel_pc' = "done"
    /\ UNCHANGED <<now, last_op, registry_vars, sel_failed, sel_offset, probe_vars,
                   req_vars, thread_vars>>

NextSelect == SelectCall

SpecSelect == InitSelect /\ [][NextSelect]_vars

(***************************************************************************)
(* Claims on the selector, checked under SpecSelect                        *)
(***************************************************************************)
SelReturned == sel_pc = "done" /\ sel_result # NotFound
SelPair == <<sel_result.model, sel_result.provider>>

\* C1: whatever the working set, the cache, the exclusion set and the skip
\* count, get_nofail_params_excluding_failed never returns a (model,
\* provider) pair that is in the exclusion set it was given.
C1_NeverReturnsExcluded ==
    SelReturned => SelPair \notin sel_failed

\* the selector returned a pair although the pair the selector would return
\* without exclusions is excluded
C1_Witness ==
    /\ SelReturned
    /\ LET free == get_nofail_params(sel_offset, success_cache,
                        all_working_provider_names, default_provider, now)
       IN free # NotFound /\ <<free.model, free.provider>> \in sel_failed

\* The reference choice of C2, stated without the loop: every hit of a model
\* is ranked by (tier, position within the tier) and the least one is taken.
RefLive == {i \in 1..Len(success_cache) :
               now - success_cache[i].time < SUCCESS_CACHE_TTL_MINUTES}
RefSupports(p, m) == p \in all_working_provider_names /\ m \in supported_models(p)
RefHits(m) ==
    LET tier1 == {<<1, i, success_cache[i].provider>> : i \in
                    {k \in RefLive : /\ success_cache[k].model = m
                                     /\ RefSupports(success_cache[k].provider, m)}}
        tier2 == IF default_provider[m] \in all_working_provider_names
                 THEN {<<2, 0, default_provider[m]>>} ELSE {}
        tier3 == {<<3, i, success_cache[i].provider>> : i \in
                    {k \in RefLive : RefSupports(success_cache[k].provider, m)}}
        tier4 == {<<4, i, ProviderOrder[i]>> : i \in
                    {k \in 1..Len(ProviderOrder) : RefSupports(ProviderOrder[k], m)}}
    IN {h \in tier1 \cup tier2 \cup tier3 \cup tier4 : <<m, h[3]>> \notin sel_failed}
RefBefore(a, b) == a[1] < b[1] \/ (a[1] = b[1] /\ a[2] < b[2])
RefBest(m) == CHOOSE h \in RefHits(m) : \A g \in RefHits(m) : g = h \/ RefBefore(h, g)
\* the models the walk looks at: resolvable, and not among the first
\* sel_offset resolvable ones
RefResolvable == {i \in 1..Len(BEST_MODELS_ORDERED) :
                     default_provider[BEST_MODELS_ORDERED[i]] # Unresolved}
RefConsidered == {i \in RefResolvable :
                     Cardinality({j \in RefResolvable : j < i}) >= sel_offset}
RefWithHit == {i \in RefConsidered : RefHits(BEST_MODELS_ORDERED[i]) # {}}
RefSelect ==
    IF RefWithHit = {} THEN NotFound
    ELSE LET i == CHOOSE k \in RefWithHit : \A j \in RefWithHit : k <= j
         IN NofailParams(BEST_MODELS_ORDERED[i], RefBest(BEST_MODELS_ORDERED[i])[3])

\* C2: the selector returns the reference choice: for the first model in
\* priority order (unresolvable and skipped models aside) that has a
\* non-excluded hit, the first hit in tier order: cached for this model,
\* the default provider, cached for any model, any working provider.
C2_MatchesReference ==
    sel_pc = "done" => sel_result = RefSelect

\* a result from the second model, taken from tier 3 while tier 4 holds an
\* earlier provider of the registry, the first model having only excluded hits
C2_Witness ==
    /\ SelReturned
    /\ sel_offset = 0
    /\ sel_result.model = BEST_MODELS_ORDERED[2]
    /\ default_provider[BEST_MODELS_ORDERED[1]] # Unresolved
    /\ sel_failed # {}
    /\ RefBest(sel_result.model)[1] = 3

\* a provider a tier can return for the model: in the working set, and
\* either supporting the model or the model's default provider
SelEligible(m, p) ==
    /\ default_provider[m] # Unresolved
    /\ p \in all_working_provider_names
    /\ m \in supported_models(p) \/ p = default_provider[m]
    /\ <<m, p>> \notin sel_failed

\* C3: with a skip count of 0 the selector returns a candidate whenever a
\* resolvable model has a working, supporting, non-excluded provider, and
\* raises NotFound when no model has an eligible non-excluded provider; with
\* P1 the only working provider, supporting only m1, it returns (m1, P1)
\* for an empty exclusion set and NotFound for the exclusion set {(m1, P1)}.
C3_FoundIffEligible ==
    (sel_pc = "done" /\ sel_offset = 0) =>
        /\ (\E m \in Models, p \in Providers :
                /\ default_provider[m] # Unresolved
                /\ p \in all_working_provider_names
                /\ m \in supported_models(p)
                /\ <<m, p>> \notin sel_failed)
              => sel_result # NotFound
        /\ (~ \E m \in Models, p \in Providers : SelEligible(m, p))
              => sel_result = NotFound
        /\ (/\ all_working_provider_names = {"P1"}
            /\ default_provider["m1"] # Unresolved
            /\ default_provider["m2"] # "P1"
            /\ sel_failed = {})
              => sel_result = NofailParams("m1", "P1")
        /\ (/\ all_working_provider_names = {"P1"}
            /\ default_provider["m2"] # "P1"
            /\ sel_failed = {<<"m1", "P1">>})
              => sel_result = NotFound

\* the second scenario of C3: P1 alone is working, (m1, P1) is excluded
C3_Witness ==
    /\ sel_pc = "done"
    /\ sel_offset = 0
    /\ all_working_provider_names = {"P1"}
    /\ default_provider["m1"] = "P1"
    /\ default_provider["m2"] = RetryProvider
    /\ sel_failed = {<<"m1", "P1">>}
    /\ sel_result = NotFound

(***************************************************************************)
(* Health prober (backend/background.py)                                   *)
(***************************************************************************)
\* a response text is a sequence of characters
IsSpace(c) == c \in {" ", "\n"}
RECURSIVE LStrip(_)
LStrip(text) == IF Len(text) > 0 /\ IsSpace(text[1]) THEN LStrip(Tail(text)) ELSE text
RECURSIVE RStrip(_)
RStrip(text) == IF Len(text) > 0 /\ IsSpace(text[Len(text)])
                THEN RStrip(SubSeq(text, 1, Len(text) - 1)) ELSE text
\* str.strip()
Strip(text) == RStrip(LStrip(text))

\* what one ai_respond call can do: return a text, or raise
ProbeTexts == {<<"h", "i">>, <<" ", "\n">>, <<>>}
\* BadResponseError: an exception whose .response is not a dict, which
\* ProviderFailure(response=...) does not accept; IndexError: raised before
\* the call, by list(provider.supported_models)[0] on an empty list
ProbeErrors == {"ValueError", "TimeoutError", "RuntimeError", "BadResponseError"}
ProbeOutcomes == [kind : {"text"}, text : ProbeTexts, error : {None}]
                    \cup [kind : {"raise"}, text : {<<>>}, error : ProbeErrors]
IndexErrorOutcome == [kind |-> "raise", text |-> <<>>, error |-> "IndexError"]

\* result = len(text.strip()) > 0 and isinstance(text, str)
ProbeResult_nostrip(text) == Len(text) > 0
ProbeResult(text) == Len(Strip(text)) > 0

\* the same without `del provider_failures[provider_name]` on success
test_provider_keep(name, o, failures) ==
    IF o.kind = "text"
    THEN [raised |-> FALSE, result |-> ProbeResult(o.text), failures |-> failures]
    ELSE IF o.error \in {"BadResponseError", "IndexError"}
    THEN [raised |-> TRUE, result |-> FALSE, failures |-> failures]
    ELSE [raised |-> FALSE, result |-> FALSE,
          failures |-> [failures EXCEPT ![name] = o.error]]

\* test_provider from the return of ai_respond on: the result, whether the
\* task raises instead of returning, and the failures store it leaves
test_provider(name, o, failures) ==
    IF o.kind = "text"
    THEN [raised |-> FALSE, result |-> ProbeResult(o.text),
          failures |-> IF ProbeResult(o.text)
                       THEN [failures EXCEPT ![name] = None]
                       ELSE failures]
    ELSE IF o.error \in {"BadResponseError", "IndexError"}
    THEN [raised |-> TRUE, result |-> FALSE, failures |-> failures]
    ELSE [raised |-> FALSE, result |-> FALSE,
          failures |-> [failures EXCEPT ![name] = o.error]]

\* asyncio.Semaphore(8)
PROBE_PARALLELISM == 8
InFlight(t) == Cardinality({p \in Providers : probe[t][p] = "calling"})

Sentinel == <<None, None>>

\* if lock.locked(): return
lock_locked_never(l) == FALSE
lock_locked(l) == l

\* the consumer's use of one queue item
ConsumerAdd_always(working, name, result) == working \cup {name}
ConsumerAdd(working, name, result) ==
    IF result THEN working \cup {name} ELSE working

\* provider_and_models.update_model_providers({name: ... for name in now_working})
update_model_providers(names) == names

\* the invocation t may be issued: it is not running and has left no task behind
SlotFree(t) ==
    /\ upc[t] # "running"
    /\ \A p \in Providers : probe[t][p] \notin {"waiting", "calling"}
    /\ consumer[t] # "running"

\* the locals of invocation t become new; those of an invocation that
\* has ended and left no task behind are dropped
Restart(f, t, new, idle) ==
    [u \in Invocations |-> IF u = t THEN new
                           ELSE IF SlotFree(u) THEN idle
                           ELSE f[u]]

\* update_working_providers up to its first await: decline when the lock is
\* held, else take the lock and start the producer and the consumer.  The
\* triggers of a new cycle come an hour apart: by then the tasks an earlier
\* invocation left behind have ended.
update_working_providers(t) ==
    /\ SlotFree(t)
    /\ \A u \in Invocations : u < t => ~SlotFree(u)
    /\ IF lock_locked(lock)
       THEN /\ upc' = [upc EXCEPT ![t] = "declined"]
            /\ UNCHANGED working_before
            /\ last_step' = <<"declined", t, 0>>
            /\ UNCHANGED <<provider_failures, lock, task_vars, handed,
                           probes, success_cache, all_working_provider_names>>
       ELSE /\ \A u \in Invocations : upc[u] # "running" => SlotFree(u)
            /\ lock' = TRUE
            /\ upc' = Restart(upc, t, "running", "idle")
            /\ probe' = Restart(probe, t, [p \in Providers |-> "waiting"],
                                [p \in Providers |-> "none"])
            /\ probe_ret' = Restart(probe_ret, t, [p \in Providers |-> NoOutcome],
                                    [p \in Providers |-> NoOutcome])
            /\ queue' = Restart(queue, t, <<>>, <<>>)
            /\ unfinished' = Restart(unfinished, t, 0, 0)
            /\ now_working_providers' = Restart(now_working_providers, t, {}, {})
            /\ producer' = Restart(producer, t, "gather", "none")
            /\ consumer' = Restart(consumer, t, "running", "none")
            /\ handed' = Restart(handed, t, {}, {})
            /\ working_before' = Restart(working_before, t,
                                         all_working_provider_names, {})
            /\ last_step' = <<"task", 0, 0>>
            /\ UNCHANGED <<provider_failures, probes, success_cache,
                           all_working_provider_names>>
    /\ UNCHANGED <<now, last_op, default_provider, sel_vars, req_vars, thread_vars>>

\* test_provider enters the semaphore and picks its model; picking raises
\* for a provider with an empty supported_models list
ProbeStart(t, p) ==
    /\ probe[t][p] = "waiting"
    /\ probes < MaxProbes
    /\ probes' = probes + 1
    /\ InFlight(t) < PROBE_PARALLELISM
    /\ \/ /\ probe' = [probe EXCEPT ![t][p] = "calling"]
          /\ UNCHANGED probe_ret
       \/ /\ probe' = [probe EXCEPT ![t][p] = "raised"]
          /\ probe_ret' = [probe_ret EXCEPT ![t][p] = IndexErrorOutcome]
    /\ last_step' = <<"task", 0, 0>>
    /\ UNCHANGED <<cache_vars, registry_vars, sel_vars, req_vars, thread_vars, provider_failures, lock, upc,
                   queue, unfinished, now_working_providers, producer, consumer,
                   handed, working_before>>

\* ai_respond returns or raises; test_provider classifies it, updates the
\* failures store and puts (provider, result) into the queue
ProbeReturn(t, p, o) ==
    /\ probe[t][p] = "calling"
    /\ LET r == test_provider(p, o, provider_failures)
       IN /\ provider_failures' = r.failures
          /\ IF r.raised
             THEN /\ probe' = [probe EXCEPT ![t][p] = "raised"]
                  /\ UNCHANGED <<queue, unfinished>>
             ELSE /\ probe' = [probe EXCEPT ![t][p] = "done"]
                  /\ queue' = [queue EXCEPT ![t] = Append(@, <<p, r.result>>)]
                  /\ unfinished' = [unfinished EXCEPT ![t] = @ + 1]
    /\ probe_ret' = [probe_ret EXCEPT ![t][p] = o]
    /\ last_step' = <<"task", 0, 0>>
    /\ UNCHANGED <<cache_vars, registry_vars, sel_vars, req_vars, thread_vars, lock, upc,
                   now_working_providers, producer, consumer, handed, working_before,
                   probes>>

\* producer: asyncio.gather over the probes has every result
ProducerGathered(t) ==
    /\ producer[t] = "gather"
    /\ \A p \in Providers : probe[t][p] = "done"
    /\ producer' = [producer EXCEPT ![t] = "join"]
    /\ last_step' = <<"task", 0, 0>>
    /\ UNCHANGED <<cache_vars, registry_vars, sel_vars, req_vars, thread_vars, provider_failures, lock, upc,
                   probe, probe_ret, queue, unfinished, now_working_providers,
                   consumer, handed, working_before, probes>>

\* producer: asyncio.gather re-raises the exception of a probe
ProducerRaise(t) ==
    /\ producer[t] = "gather"
    /\ \E p \in Providers : probe[t][p] = "raised"
    /\ producer' = [producer EXCEPT ![t] = "raised"]
    /\ last_step' = <<"task", 0, 0>>
    /\ UNCHANGED <<cache_vars, registry_vars, sel_vars, req_vars, thread_vars, provider_failures, lock, upc,
                   probe, probe_ret, queue, unfinished, now_working_providers,
                   consumer, handed, working_before, probes>>

\* producer: queue.join() returns, the sentinel is put
ProducerJoined(t) ==
    /\ producer[t] = "join"
    /\ unfinished[t] = 0
    /\ producer' = [producer EXCEPT ![t] = "done"]
    /\ queue' = [queue EXCEPT ![t] = Append(@, Sentinel)]
    /\ unfinished' = [unfinished EXCEPT ![t] = @ + 1]
    /\ last_step' = <<"task", 0, 0>>
    /\ UNCHANGED <<cache_vars, registry_vars, sel_vars, req_vars, thread_vars, provider_failures, lock, upc,
                   probe, probe_ret, now_working_providers, consumer, handed,
                   working_before, probes>>

\* consumer: one queue.get()
ConsumerGet(t) ==
    /\ consumer[t] = "running"
    /\ Len(queue[t]) > 0
    /\ LET item == Head(queue[t])
       IN IF item[1] = None /\ item[2] = None
          THEN /\ consumer' = [consumer EXCEPT ![t] = "done"]
               /\ UNCHANGED <<now_working_providers, unfinished>>
          ELSE /\ now_working_providers' = [now_working_providers EXCEPT ![t] =
                        ConsumerAdd(@, item[1], item[2])]
               /\ unfinished' = [unfinished EXCEPT ![t] = @ - 1]
               /\ UNCHANGED consumer
    /\ queue' = [queue EXCEPT ![t] = Tail(@)]
    /\ last_step' = <<"task", 0, 0>>
    /\ UNCHANGED <<cache_vars, registry_vars, sel_vars, req_vars, thread_vars, provider_failures, lock, upc,
                   probe, probe_ret, producer, handed, working_before, probes>>

\* consumer: asyncio.timeout(5 * 60) expires while it waits on the queue
\* for a result, or for a sentinel that never comes
ConsumerTimeout(t) ==
    /\ consumer[t] = "running"
    /\ Len(queue[t]) = 0
    /\ producer[t] \in {"gather", "raised"}
    /\ consumer' = [consumer EXCEPT ![t] = "timeout"]
    /\ last_step' = <<"task", 0, 0>>
    /\ UNCHANGED <<cache_vars, registry_vars, sel_vars, req_vars, thread_vars, provider_failures, lock, upc,
                   probe, probe_ret, queue, unfinished, now_working_providers,
                   producer, handed, working_before, probes>>

\* the same with the lock still held after the exception
CycleRaise_keeplock(t) ==
    /\ upc[t] = "running"
    /\ producer[t] = "raised" \/ consumer[t] = "timeout"
    /\ upc' = [upc EXCEPT ![t] = "raised"]
    /\ lock' = lock
    /\ last_step' = <<"raised", t, 0>>
    /\ UNCHANGED <<cache_vars, registry_vars, sel_vars, req_vars, thread_vars, provider_failures, task_vars,
                   handed, working_before, probes>>

\* asyncio.gather(producer(), consumer()) re-raises: the invocation leaves
\* the async with block, releasing the lock, without reaching line 184
CycleRaise(t) ==
    /\ upc[t] = "running"
    /\ producer[t] = "raised" \/ consumer[t] = "timeout"
    /\ upc' = [upc EXCEPT ![t] = "raised"]
    /\ lock' = FALSE
    /\ last_step' = <<"raised", t, 0>>
    /\ UNCHANGED <<cache_vars, registry_vars, sel_vars, req_vars, thread_vars, provider_failures, task_vars,
                   handed, working_before, probes>>

\* lines 184-195: both tasks are done; the working set is republished, the
\* success cache cleared, the lock released
CycleFinish(t) ==
    /\ upc[t] = "running"
    /\ producer[t] = "done"
    /\ consumer[t] = "done"
    /\ handed' = [handed EXCEPT ![t] = now_working_providers[t]]
    /\ all_working_provider_names' = update_model_providers(now_working_providers[t])
    /\ success_cache' = clear_success_cache(success_cache)
    /\ upc' = [upc EXCEPT ![t] = "returned"]
    /\ lock' = FALSE
    /\ last_step' = <<"returned", t, Len(success_cache)>>
    /\ UNCHANGED <<now, last_op, default_provider, sel_vars, req_vars, thread_vars, provider_failures,
                   task_vars, working_before, probes>>

\* a completion request, running in its own thread, records a success
CompletionRecords(p, m) ==
    /\ Len(success_cache) < MaxProbeCache
    /\ success_cache' = add_successful_provider(success_cache, p, m, now)
    /\ last_step' = <<"task", 0, 0>>
    /\ UNCHANGED <<now, last_op, registry_vars, sel_vars, req_vars, thread_vars, provider_failures, lock,
                   upc, task_vars, handed, working_before, probes>>

InitProbe ==
    /\ success_cache = <<>>
    /\ now = 0
    /\ last_op = NoOp
    /\ all_working_provider_names = Providers
    /\ default_provider = [m \in Models |-> RetryProvider]
    /\ SelIdle
    /\ ProbeIdle
    /\ ReqIdle
    /\ ThreadsIdle

NextProbe ==
    \/ \E t \in Invocations : update_working_providers(t)
    \/ \E t \in Invocations, p \in Providers : ProbeStart(t, p)
    \/ \E t \in Invocations, p \in Providers, o \in ProbeOutcomes : ProbeReturn(t, p, o)
    \/ \E t \in Invocations : ProducerGathered(t)
    \/ \E t \in Invocations : ProducerRaise(t)
    \/ \E t \in Invocations : ProducerJoined(t)
    \/ \E t \in Invocations : ConsumerGet(t)
    \/ \E t \in Invocations : ConsumerTimeout(t)
    \/ \E t \in Invocations : CycleRaise(t)
    \/ \E t \in Invocations : CycleFinish(t)
    \/ \E p \in Providers, m \in Models : CompletionRecords(p, m)

SpecProbe == InitProbe /\ [][NextProbe]_vars

(***************************************************************************)
(* Claims on the prober, checked under SpecProbe                           *)
(***************************************************************************)
Running == {t \in Invocations : upc[t] = "running"}

\* C7: when update_working_providers is triggered while another invocation
\* holds the lock, at most one probe cycle is executing at any time, and the
\* trigger returns in that very step: it starts no probe and leaves the
\* working set, the success cache and the failures store as they were.
C7_SingleFlight ==
    /\ [](Cardinality(Running) <= 1)
    /\ [][\A t \in Invocations :
            (lock /\ upc[t] # "running" /\ upc'[t] # upc[t]) =>
                /\ upc'[t] = "declined"
                /\ UNCHANGED <<all_working_provider_names, success_cache,
                               provider_failures, task_vars>>]_vars

\* an invocation has declined while the other one has a probe in flight
C7_Witness ==
    \E t1, t2 \in Invocations :
        /\ upc[t1] = "running"
        /\ upc[t2] = "declined"
        /\ \E p \in Providers : probe[t1][p] = "calling"

\* C8: in the state a probe cycle leaves when update_working_providers
\* returns after having run, the success cache is empty, whatever it held
\* before.
C8_CacheEmptyAfterCycle ==
    last_step[1] = "returned" => success_cache = <<>>

\* the returning step found entries in the cache
C8_Witness ==
    /\ last_step[1] = "returned"
    /\ last_step[3] > 0

\* the providers whose probe returned a text with something in it / a text
\* with something other than whitespace in it
ReturnedNonEmpty(t) ==
    {p \in Providers : probe_ret[t][p].kind = "text" /\ Len(probe_ret[t][p].text) > 0}
ReturnedNonBlank(t) ==
    {p \in Providers : /\ probe_ret[t][p].kind = "text"
                       /\ Len(Strip(probe_ret[t][p].text)) > 0}

\* C9 as amended: at the end of a probe cycle the working set handed to the
\* registry is exactly the set of catalog providers whose probe in this
\* cycle returned a string that is non-empty after stripping whitespace;
\* nothing is kept from the working set of before.
C9_HandedIsNonBlank ==
    \A t \in Invocations :
        upc[t] = "returned" =>
            /\ handed[t] = ReturnedNonBlank(t)
            /\ (last_step[1] = "returned" /\ last_step[2] = t)
                  => all_working_provider_names = handed[t]

\* a provider that was working before the cycle fails in it and is dropped,
\* while another provider passes
C9_Witness ==
    \E t \in Invocations :
        /\ upc[t] = "returned"
        /\ \E p \in working_before[t] : p \notin handed[t]
        /\ handed[t] # {}

\* C9 as stated: the working set handed to the registry is exactly the set
\* of catalog providers whose probe returned a non-empty string.
C9_HandedIsNonEmpty ==
    \A t \in Invocations :
        upc[t] = "returned" => handed[t] = ReturnedNonEmpty(t)

(***************************************************************************)
(* Completion handler (backend/routes.py)                                  *)
(***************************************************************************)
MaxRequests == 1     \* completion requests received in one run

\* for attempt in range(10)
MAX_ATTEMPTS == 10

\* the address get_public_ip() returns when the lookup succeeds
PublicIp == "1.2.3.4"

\* str.lower(), character by character
LowerChar(c) == IF c = "H" THEN "h" ELSE c
Lower(text) == [i \in 1..Len(text) |-> LowerChar(text[i])]
\* ip in response.lower(): the address is one character of the model's texts
Contains(text, ip) == \E i \in 1..Len(text) : text[i] = ip

\* what one chat.create call can do: return a text, return something that
\* is no str, or raise
ClientTexts == {<<"H", "i">>, <<" ", "\n">>, <<>>, <<"H", PublicIp>>, <<PublicIp>>}
ClientErrors == {"ProviderCallFailed"}
ClientOutcomes == [kind : {"text"}, text : ClientTexts, error : {None}]
                     \cup [kind : {"raise"}, text : {<<>>}, error : ClientErrors]
                     \cup [kind : {"other"}, text : {<<>>}, error : {None}]

\* the exception a chat.create call raised, as the caller of the handler sees it
ClientError(e) == [error |-> e, status_code |-> 0]
\* raise CustomValidationError("Unexpected response type ...")
CustomValidationError == [error |-> "CustomValidationError", status_code |-> 422]
\* raise HTTPException(status_code=422, ...) of get_best_model_for_provider
Unprocessable == [error |-> "HTTPException", status_code |-> 422]
\* raise HTTPException(status_code=500, detail="... Last tried model: ... and provider: ...")
Exhausted(m, p) == [error |-> "HTTPException", status_code |-> 500, detail |-> <<m, p>>]

\* adapters.extract_openai_content: a str that holds no 'choices' is returned
\* as it is, and no text of ClientTexts holds one
extract_openai_content(text) == text
\* ADAPTERS_MAP, looked up by model name: no model of the registry has an adapter
ADAPTERS_MAP == {"Ai4Chat"}
\* urllib.parse.unquote: a %20 escape becomes a space
url_decode(text) == [i \in 1..Len(text) |-> IF text[i] = "%20" THEN " " ELSE text[i]]
adapt_response(m, text) ==
    IF m \notin ADAPTERS_MAP THEN extract_openai_content(text)
    ELSE url_decode(extract_openai_content(text))

CompletionResponse(completion, m, p) ==
    [completion |-> completion, model |-> m, provider |-> p]

\* the supported models of a provider, sorted by their index in
\* BEST_MODELS_ORDERED, first one; Unprocessable when the provider is not in
\* the working map or supports no model
get_best_model_for_provider(name, working) ==
    IF name \notin working THEN Unprocessable
    ELSE IF supported_models(name) = {} THEN Unprocessable
    ELSE NofailParams(
            CHOOSE m \in supported_models(name) :
                \A m2 \in supported_models(name) :
                    IndexOf(BEST_MODELS_ORDERED, m) <= IndexOf(BEST_MODELS_ORDERED, m2),
            name)

\* lines 172-186: the mode of the request and its first (model, provider)
post_completion(m, p) ==
    /\ rpc # "calling"
    /\ requests < MaxRequests
    /\ requests' = requests + 1
    /\ params' = [model |-> m, provider |-> p]
    /\ attempt' = 0
    /\ ip_detected_response' = NoResponse
    /\ failed_combinations' = {}
    /\ calls' = 0
    /\ prev_call' = NoCall
    /\ raised' = {}
    /\ first_call' = NoCall
    /\ IF m = None /\ p = None
       THEN LET nofail_params == get_nofail_params(0, success_cache,
                                    all_working_provider_names, default_provider, now)
            IN /\ success_cache' = _clean_expired_cache(success_cache, now)
               /\ IF nofail_params = NotFound
                  THEN /\ rpc' = "raised"
                       /\ response' = [kind |-> "raised", body |-> NotFound]
                       /\ nofail' = FALSE
                       /\ model_name' = None
                       /\ provider_name' = None
                  ELSE /\ rpc' = "calling"
                       /\ response' = NoResult
                       /\ nofail' = TRUE
                       /\ model_name' = nofail_params.model
                       /\ provider_name' = nofail_params.provider
       ELSE IF m = None
       THEN LET best == get_best_model_for_provider(p, all_working_provider_names)
            IN /\ nofail' = FALSE
               /\ UNCHANGED success_cache
               /\ IF best = Unprocessable
                  THEN /\ rpc' = "raised"
                       /\ response' = [kind |-> "raised", body |-> Unprocessable]
                       /\ model_name' = None
                       /\ provider_name' = p
                  ELSE /\ rpc' = "calling"
                       /\ response' = NoResult
                       /\ model_name' = best.model
                       /\ provider_name' = p
       ELSE /\ nofail' = FALSE
            /\ UNCHANGED success_cache
            /\ rpc' = "calling"
            /\ response' = NoResult
            /\ model_name' = m
            /\ provider_name' = p
    /\ UNCHANGED <<now, last_op, registry_vars, sel_vars, probe_vars, public_ip,
                   thread_vars>>

\* the same without add_successful_provider before returning the flagged response
LoopNext_norecord(m, p, ipd, failed, cache) ==
    /\ model_name' = m
    /\ provider_name' = p
    /\ ip_detected_response' = ipd
    /\ failed_combinations' = failed
    /\ success_cache' = cache
    /\ IF attempt + 1 < MAX_ATTEMPTS
       THEN /\ attempt' = attempt + 1
            /\ rpc' = "calling"
            /\ response' = NoResult
       ELSE /\ attempt' = attempt
            /\ IF ipd # NoResponse
               THEN /\ rpc' = "returned"
                    /\ response' = [kind |-> "returned", body |-> ipd]
               ELSE /\ rpc' = "raised"
                    /\ response' = [kind |-> "raised", body |-> Exhausted(m, p)]

\* the end of one pass of the loop body that neither returned nor raised:
\* the next pass, or lines 239-250 after the last one
LoopNext(m, p, ipd, failed, cache) ==
    /\ model_name' = m
    /\ provider_name' = p
    /\ ip_detected_response' = ipd
    /\ failed_combinations' = failed
    /\ IF attempt + 1 < MAX_ATTEMPTS
       THEN /\ attempt' = attempt + 1
            /\ rpc' = "calling"
            /\ response' = NoResult
            /\ success_cache' = cache
       ELSE /\ attempt' = attempt
            /\ IF ipd # NoResponse
               THEN /\ success_cache' =
                          add_successful_provider(cache, ipd.provider, ipd.model, now)
                    /\ rpc' = "returned"
                    /\ response' = [kind |-> "returned", body |-> ipd]
               ELSE /\ success_cache' = cache
                    /\ rpc' = "raised"
                    /\ response' = [kind |-> "raised", body |-> Exhausted(m, p)]

\* the request leaves the handler with an exception
Raise(e, failed, cache) ==
    /\ rpc' = "raised"
    /\ response' = [kind |-> "raised", body |-> e]
    /\ failed_combinations' = failed
    /\ success_cache' = cache
    /\ UNCHANGED <<model_name, provider_name, attempt, ip_detected_response>>

\* the same without failed_combinations.add((model_name, provider_name))
Requery_noexclude ==
    LET failed == failed_combinations
        nofail_params == get_nofail_params_excluding_failed(
                             failed, attempt, success_cache,
                             all_working_provider_names, default_provider, now)
        cache == _clean_expired_cache(success_cache, now)
    IN IF nofail_params = NotFound
       THEN Raise(NotFound, failed, cache)
       ELSE LoopNext(nofail_params.model, nofail_params.provider,
                     ip_detected_response, failed, cache)

\* lines 199-207 and 233-237: exclude the pair and ask the selector again; an
\* HTTPException of the selector leaves the handler (raised at line 200 it is
\* caught at line 230, and raised once more by the selector at line 234)
Requery ==
    LET failed == failed_combinations \cup {<<model_name, provider_name>>}
        nofail_params == get_nofail_params_excluding_failed(
                             failed, attempt, success_cache,
                             all_working_provider_names, default_provider, now)
        cache == _clean_expired_cache(success_cache, now)
    IN IF nofail_params = NotFound
       THEN Raise(NotFound, failed, cache)
       ELSE LoopNext(nofail_params.model, nofail_params.provider,
                     ip_detected_response, failed, cache)

\* lines 188-250: one chat.create call and what the handler does with its
\* outcome, up to the next call or to the end of the request
ChatCreate(o) ==
    /\ rpc = "calling"
    /\ calls' = calls + 1
    /\ prev_call' = [model |-> model_name, provider |-> provider_name, outcome |-> o]
    /\ first_call' = IF calls = 0
                     THEN [model |-> model_name, provider |-> provider_name,
                           outcome |-> o]
                     ELSE first_call
    /\ raised' = IF o.kind = "raise"
                 THEN raised \cup {<<model_name, provider_name>>} ELSE raised
    /\ LET completion_response ==
               CompletionResponse(adapt_response(model_name, o.text),
                                  model_name, provider_name)
           blank == Strip(o.text) = <<>>
           flagged == public_ip # None /\ Contains(Lower(o.text), public_ip)
       IN IF o.kind = "text"
          THEN IF blank /\ nofail
               THEN Requery
               ELSE IF flagged
               THEN LoopNext(model_name, provider_name,
                             IF ip_detected_response = NoResponse
                             THEN completion_response ELSE ip_detected_response,
                             failed_combinations, success_cache)
               ELSE /\ success_cache' = add_successful_provider(
                                            success_cache, provider_name, model_name, now)
                    /\ rpc' = "returned"
                    /\ response' = [kind |-> "returned", body |-> completion_response]
                    /\ UNCHANGED <<model_name, provider_name, attempt,
                                   ip_detected_response, failed_combinations>>
          ELSE IF ~nofail
               THEN Raise(IF o.kind = "raise" THEN ClientError(o.error)
                          ELSE CustomValidationError,
                          failed_combinations, success_cache)
               ELSE Requery
    /\ UNCHANGED <<now, last_op, registry_vars, sel_vars, probe_vars, public_ip,
                   params, nofail, requests, thread_vars>>

\* the success cache as earlier requests may have left it
InitCaches == {<<>>, <<Entry("P2", "m2", 0), Entry("P1", "m1", 0)>>}
\* the failures store as an earlier probe cycle may have left it
InitFailures == {[p \in Providers |-> None],
                 [p \in Providers |-> IF p = "P1" THEN "TimeoutError" ELSE None]}

Init ==
    /\ success_cache \in InitCaches
    /\ now = 0
    /\ last_op = NoOp
    /\ all_working_provider_names \in SUBSET Providers
    /\ default_provider \in [Models -> DefaultChoices]
    /\ SelIdle
    /\ provider_failures \in InitFailures
    /\ lock = FALSE
    /\ upc = [t \in Invocations |-> "idle"]
    /\ probe = [t \in Invocations |-> [p \in Providers |-> "none"]]
    /\ probe_ret = [t \in Invocations |-> [p \in Providers |-> NoOutcome]]
    /\ queue = [t \in Invocations |-> <<>>]
    /\ unfinished = [t \in Invocations |-> 0]
    /\ now_working_providers = [t \in Invocations |-> {}]
    /\ producer = [t \in Invocations |-> "none"]
    /\ consumer = [t \in Invocations |-> "none"]
    /\ handed = [t \in Invocations |-> {}]
    /\ working_before = [t \in Invocations |-> {}]
    /\ probes = 0
    /\ last_step = <<"none", 0, 0>>
    /\ public_ip \in {None, PublicIp}
    /\ rpc = "idle"
    /\ params = [model |-> None, provider |-> None]
    /\ nofail = FALSE
    /\ model_name = None
    /\ provider_name = None
    /\ attempt = 0
    /\ ip_detected_response = NoResponse
    /\ failed_combinations = {}
    /\ calls = 0
    /\ prev_call = NoCall
    /\ raised = {}
    /\ first_call = NoCall
    /\ response = NoResult
    /\ requests = 0
    /\ ThreadsIdle

Next ==
    \/ \E m \in Models \cup {None}, p \in Providers \cup {None} : post_completion(m, p)
    \/ \E o \in ClientOutcomes : ChatCreate(o)

Spec == Init /\ [][Next]_vars

(***************************************************************************)
(* Claims on the completion handler, checked under Spec                    *)
(***************************************************************************)
\* the caller gave both the model and the provider
Explicit == params.model # None /\ params.provider # None

\* C10: in explicit mode post_completion calls chat.create exactly once for
\* the request, whatever the call does (a text, an empty text, a text holding
\* the public IP, an exception), and a failure of the call is re-raised
\* unchanged, without another call.
C10_ExplicitOneCall ==
    Explicit =>
        /\ calls <= 1
        /\ rpc \in {"returned", "raised"} => calls = 1
        /\ (rpc = "raised" /\ prev_call.outcome.kind = "raise") =>
               response.body = ClientError(prev_call.outcome.error)

\* the step is a chat.create call of a fallback-mode request, and it raised
FallbackRaise ==
    /\ nofail
    /\ rpc = "calling"
    /\ calls' = calls + 1
    /\ prev_call'.outcome.kind = "raise"

\* the request made three calls: two raised, the third returned a text that
\* the handler returned
TwoRaiseThenText ==
    /\ nofail
    /\ rpc = "returned"
    /\ calls = 3
    /\ Cardinality(raised) = 2
    /\ prev_call.outcome.kind = "text"
    /\ response.body.provider = prev_call.provider

Recorded == {p \in Providers : provider_failures[p] # None}

\* C11 (as claimed): in fallback mode every exception chat.create raises for
\* a provider p is recorded in the failures store under p before the next
\* candidate is tried; a request whose first two candidates raise and whose
\* third returns a text leaves one record for each provider that raised.
C11_ExceptionRecorded ==
    /\ [][FallbackRaise =>
            provider_failures'[provider_name] = prev_call'.outcome.error]_vars
    /\ [](TwoRaiseThenText => {pair[2] : pair \in raised} \subseteq Recorded)

\* C11 (amended): in fallback mode an exception chat.create raises for the
\* pair (m, p) is recorded in failed_combinations only, before the next
\* candidate is tried, and that candidate is no excluded pair; the failures
\* store is left as it was.
C11_ExceptionExcludedOnly ==
    [][FallbackRaise =>
         /\ <<model_name, provider_name>> \in failed_combinations'
         /\ rpc' = "calling" =>
                <<model_name', provider_name'>> \notin failed_combinations'
         /\ provider_failures' = provider_failures]_vars

\* two candidates raised, the third answered, and the store holds no record
\* of either provider that raised
C11_Witness ==
    /\ TwoRaiseThenText
    /\ \A pair \in raised : provider_failures[pair[2]] = None

\* ip is not None and ip in response.lower(), of a text
Flagged(text) == public_ip # None /\ Contains(Lower(text), public_ip)

CachePairs(cache) == {<<cache[i].model, cache[i].provider>> : i \in 1..Len(cache)}

\* the step is a chat.create call of a fallback-mode request that returned a
\* text which is not blank and does not hold the public IP
GenuineResponse ==
    /\ nofail
    /\ rpc = "calling"
    /\ calls' = calls + 1
    /\ prev_call'.outcome.kind = "text"
    /\ Strip(prev_call'.outcome.text) # <<>>
    /\ ~Flagged(prev_call'.outcome.text)

\* C12: a fallback-mode request that gets a genuine response (not blank, not
\* IP-flagged) returns it in that step, with no further chat.create call, and
\* records in the success cache exactly one pair, the winning one, at the
\* front; no pair of failed_combinations is recorded by the request.
C12_GenuineRecordsWinnerOnly ==
    [][GenuineResponse =>
         /\ rpc' = "returned"
         /\ response'.kind = "returned"
         /\ response'.body.model = model_name
         /\ response'.body.provider = provider_name
         /\ response'.body.completion = prev_call'.outcome.text
         /\ Len(success_cache') >= 1
         /\ success_cache'[1].provider = provider_name
         /\ success_cache'[1].model = model_name
         /\ (CachePairs(success_cache') \ CachePairs(success_cache))
                \subseteq {<<model_name, provider_name>>}
         /\ <<model_name, provider_name>> \notin failed_combinations'
         /\ (CachePairs(success_cache') \cap failed_combinations')
                \subseteq CachePairs(success_cache)]_vars

\* a fallback-mode request returned a genuine response after another pair had
\* failed, and the cache already held another pair
C12_Witness ==
    /\ nofail
    /\ rpc = "returned"
    /\ failed_combinations # {}
    /\ prev_call.outcome.kind = "text"
    /\ ~Flagged(prev_call.outcome.text)
    /\ response.body.provider = prev_call.provider
    /\ Len(success_cache) = 2
    /\ success_cache[1].provider = prev_call.provider
    /\ success_cache[1].model = prev_call.model

\* the call returned a text that holds the public IP of the service
HoldsIp(o) == o.kind = "text" /\ Contains(Lower(o.text), PublicIp)

\* the fallback-mode request has ended and every chat.create call it made
\* returned a text holding the public IP: the last one did, and no call before
\* it did anything else (a blank text, a non-str or an exception leaves its
\* pair in failed_combinations, any other text ends the request)
EveryCallHeldIp ==
    /\ nofail
    /\ rpc \in {"returned", "raised"}
    /\ calls >= 1
    /\ failed_combinations = {}
    /\ HoldsIp(prev_call.outcome)

\* C13: in fallback mode, if every chat.create call of the request returns a
\* text holding the public IP, the request does not fail: it returns the first
\* such response and records the pair of that response in the success cache.
C13_AllFlaggedReturnsFirst ==
    EveryCallHeldIp =>
        /\ rpc = "returned"
        /\ response.kind = "returned"
        /\ response.body = CompletionResponse(first_call.outcome.text,
                                              first_call.model, first_call.provider)
        /\ Len(success_cache) >= 1
        /\ success_cache[1].provider = first_call.provider
        /\ success_cache[1].model = first_call.model

\* the request used all its attempts, the last flagged text differs from the
\* first, and the first is what was returned
C13_Witness ==
    /\ EveryCallHeldIp
    /\ public_ip = PublicIp
    /\ calls = MAX_ATTEMPTS
    /\ first_call.outcome.text # prev_call.outcome.text
    /\ response.body.completion = first_call.outcome.text

(***************************************************************************)
(* Further claims on the prober, checked under SpecProbe                   *)
(***************************************************************************)
\* the invocation t has ended, by returning or by raising
Ended(t) == upc[t] \in {"returned", "raised"}

\* a probe of the cycle t failed: its call raised, it raised while picking
\* the model, or the text it got is blank
ProbeFailed(t) ==
    \E p \in Providers :
        \/ probe_ret[t][p].kind = "raise"
        \/ probe_ret[t][p].kind = "text" /\ ~ProbeResult(probe_ret[t][p].text)

\* the consumer's asyncio.timeout(5 * 60) has expired in the cycle t
TimedOut(t) == consumer[t] = "timeout"

\* C14: a single provider's failure of any kind (exception, timeout, blank
\* response, an error while picking the probe model) never aborts the cycle:
\* the cycle returns, every provider has been probed and its result
\* collected, and the working set has been republished.
C14_ProbeFailureNeverAborts ==
    \A t \in Invocations :
        (Ended(t) /\ ProbeFailed(t) /\ ~TimedOut(t)) =>
            /\ upc[t] = "returned"
            /\ \A p \in Providers : probe[t][p] = "done"
            /\ handed[t] = {p \in Providers : /\ probe_ret[t][p].kind = "text"
                                              /\ ProbeResult(probe_ret[t][p].text)}

\* C15: when the overall timeout of the cycle expires before every result is
\* collected (no probe having raised), the cycle still ends normally: the
\* working set is replaced by the providers whose passing results were
\* collected before the timeout, and the success cache is cleared.
C15_TimeoutEndsNormally ==
    \A t \in Invocations :
        (TimedOut(t) /\ producer[t] # "raised" /\ upc[t] # "running") =>
            /\ upc[t] = "returned"
            /\ handed[t] = now_working_providers[t]
            /\ (last_step[2] = t =>
                    /\ all_working_provider_names = now_working_providers[t]
                    /\ success_cache = <<>>)

(***************************************************************************)
(* SpecRace: the success cache under concurrent callers.  post_completion  *)
(* is a plain def route, so each request runs in a worker thread; the      *)
(* prober runs on the event loop.  No lock guards success_cache: a thread  *)
(* may be preempted between reading the global and rebinding it.           *)
(***************************************************************************)
\* add_successful_provider, lines 25-29: the comprehension reads the global
\* and builds the list without the pair
AddFilter(t, p, m) ==
    /\ thr[t].pc = "idle"
    /\ thr' = [thr EXCEPT ![t] =
                 [pc |-> "store", op |-> "record", provider |-> p, model |-> m,
                  tmp |-> SelectSeq(success_cache,
                                    LAMBDA e : ~(e.provider = p /\ e.model = m)),
                  result |-> <<>>]]
    /\ UNCHANGED <<cache_vars, registry_vars, sel_vars, probe_vars, req_vars,
                   cleared, cache0>>

\* line 25: the global is rebound to the list built
AddStore(t) ==
    /\ thr[t].pc = "store"
    /\ success_cache' = thr[t].tmp
    /\ thr' = [thr EXCEPT ![t].pc = "insert"]
    /\ UNCHANGED <<now, last_op, registry_vars, sel_vars, probe_vars, req_vars,
                   cleared, cache0>>

\* line 31: success_cache.insert(0, (provider_name, model, current_time))
AddInsert(t) ==
    /\ thr[t].pc = "insert"
    /\ success_cache' = <<Entry(thr[t].provider, thr[t].model, now)>> \o success_cache
    /\ thr' = [thr EXCEPT ![t].pc = "clean"]
    /\ UNCHANGED <<now, last_op, registry_vars, sel_vars, probe_vars, req_vars,
                   cleared, cache0>>

\* get_cached_successful_providers(model_filter) is called (line 35)
QueryCall(t, model_filter) ==
    /\ thr[t].pc = "idle"
    /\ thr' = [thr EXCEPT ![t] = [NoThread EXCEPT !.pc = "clean", !.op = "query",
                                                   !.model = model_filter]]
    /\ UNCHANGED <<cache_vars, registry_vars, sel_vars, probe_vars, req_vars,
                   cleared, cache0>>

\* _clean_expired_cache, lines 61-62: the comprehension reads the global
CleanFilter(t) ==
    /\ thr[t].pc = "clean"
    /\ thr' = [thr EXCEPT ![t].pc = "clean_store",
                          ![t].tmp = _clean_expired_cache(success_cache, now)]
    /\ UNCHANGED <<cache_vars, registry_vars, sel_vars, probe_vars, req_vars,
                   cleared, cache0>>

\* line 62: the global is rebound to the purged list
CleanStore(t) ==
    /\ thr[t].pc = "clean_store"
    /\ success_cache' = thr[t].tmp
    /\ thr' = [thr EXCEPT ![t].pc = IF thr[t].op = "query" THEN "iterate" ELSE "done"]
    /\ UNCHANGED <<now, last_op, registry_vars, sel_vars, probe_vars, req_vars,
                   cleared, cache0>>

\* get_cached_successful_providers, lines 39-51: the loop over the global
QueryIterate(t) ==
    /\ thr[t].pc = "iterate"
    /\ thr' = [thr EXCEPT ![t].pc = "done",
                          ![t].result = CachedLoop(success_cache, 1, thr[t].model, <<>>)]
    /\ UNCHANGED <<cache_vars, registry_vars, sel_vars, probe_vars, req_vars,
                   cleared, cache0>>

\* clear_success_cache, line 56, called by the prober at the end of its cycle
ProberClears ==
    /\ ~cleared
    /\ cleared' = TRUE
    /\ success_cache' = clear_success_cache(success_cache)
    /\ UNCHANGED <<now, last_op, registry_vars, sel_vars, probe_vars, req_vars,
                   thr, cache0>>

\* the cache earlier requests left, before the threads run
RaceCaches == {<<>>, <<Entry("P1", "m1", 0)>>,
               <<Entry("P2", "m2", 0), Entry("P1", "m1", 0)>>}

InitRace ==
    /\ success_cache \in RaceCaches
    /\ cache0 = success_cache
    /\ now = 0
    /\ last_op = NoOp
    /\ all_working_provider_names = Providers
    /\ default_provider = [m \in Models |-> RetryProvider]
    /\ SelIdle
    /\ ProbeIdle
    /\ ReqIdle
    /\ thr = [t \in Threads |-> NoThread]
    /\ cleared = FALSE

NextRace ==
    \/ \E t \in Threads, p \in Providers, m \in Models : AddFilter(t, p, m)
    \/ \E t \in Threads : AddStore(t)
    \/ \E t \in Threads : AddInsert(t)
    \/ \E t \in Threads, f \in Models \cup {None} : QueryCall(t, f)
    \/ \E t \in Threads : CleanFilter(t)
    \/ \E t \in Threads : CleanStore(t)
    \/ \E t \in Threads : QueryIterate(t)
    \/ ProberClears

SpecRace == InitRace /\ [][NextRace]_vars

(***************************************************************************)
(* Claims on concurrent cache operations, checked under SpecRace           *)
(***************************************************************************)
\* no thread is inside an operation
Quiescent == \A t \in Threads : thr[t].pc \in {"idle", "done"}

\* the operations that have run: those of the threads, and 0 for the clear
OpsDone == {t \in Threads : thr[t].pc = "done"} \cup (IF cleared THEN {0} ELSE {})

\* what one operation does to the cache when nothing runs beside it
ApplyOp(id, cache) ==
    IF id = 0 THEN clear_success_cache(cache)
    ELSE IF thr[id].op = "record"
         THEN add_successful_provider(cache, thr[id].provider, thr[id].model, now)
         ELSE _clean_expired_cache(cache, now)

RECURSIVE ApplyAll(_, _, _)
ApplyAll(order, i, cache) ==
    IF i > Len(order) THEN cache
    ELSE ApplyAll(order, i + 1, ApplyOp(order[i], cache))

\* the sequential orders of a set of operations
Orders(ops) ==
    {order \in [1..Cardinality(ops) -> ops] : \A id \in ops : \E i \in DOMAIN order : order[i] = id}

\* C16: record, query and clear are atomic with respect to one another:
\* whatever the interleaving of the threads and the prober, once they have
\* all finished the cache equals the result of running their operations in
\* some sequential order from the cache they started with.
C16_Linearizable ==
    Quiescent =>
        \E order \in Orders(OpsDone) : ApplyAll(order, 1, cache0) = success_cache

(***************************************************************************)
(* Claims on the failures store, checked under SpecProbe                   *)
(***************************************************************************)
\* the step is the end of the probe of p in the cycle t, its result queued
ProbeEnds(t, p) == probe[t][p] = "calling" /\ probe'[t][p] = "done"

Passing(o) == o.kind = "text" /\ ProbeResult(o.text)

\* the step is a completion request recording a success of the provider p
CompletionSucceeds(p) ==
    /\ success_cache' # success_cache
    /\ Len(success_cache') > 0
    /\ success_cache'[1].provider = p

\* C17 (as claimed): the failures store holds at most one record per
\* provider, a new failure overwriting the previous one, and after any
\* successful call for p, a passing probe or a successful completion, it
\* holds no record for p.
C17_SuccessClearsRecord ==
    [][\A p \in Providers :
          /\ \A t \in Invocations :
                ProbeEnds(t, p) =>
                    /\ Passing(probe_ret'[t][p]) => provider_failures'[p] = None
                    /\ probe_ret'[t][p].kind = "raise" =>
                           provider_failures'[p] = probe_ret'[t][p].error
          /\ CompletionSucceeds(p) => provider_failures'[p] = None]_vars

\* C17 (amended): the failures store holds at most one record per provider,
\* a new failure of a probe overwriting the previous one, and after a passing
\* probe of p it holds no record for p; a probe changes no other provider's
\* record, and a successful completion leaves the store as it is.
C17_ProbeMaintainsRecord ==
    [][\A p \in Providers :
          /\ \A t \in Invocations :
                ProbeEnds(t, p) =>
                    /\ Passing(probe_ret'[t][p]) => provider_failures'[p] = None
                    /\ probe_ret'[t][p].kind = "raise" =>
                           provider_failures'[p] = probe_ret'[t][p].error
                    /\ \A q \in Providers \ {p} :
                           provider_failures'[q] = provider_failures[q]
          /\ CompletionSucceeds(p) => provider_failures' = provider_failures]_vars

\* a probe of p passed and the store has no record for p, while a completion
\* succeeded for q, whose record of a failed probe is still there
C17_Witness ==
    \E t \in Invocations, p, q \in Providers :
        /\ p # q
        /\ probe[t][p] = "done"
        /\ Passing(probe_ret[t][p])
        /\ provider_failures[p] = None
        /\ probe[t][q] = "done"
        /\ probe_ret[t][q].kind = "raise"
        /\ provider_failures[q] = probe_ret[t][q].error
        /\ Len(success_cache) > 0
        /\ success_cache[1].provider = q

\* C19: every probe that is not classified successful (exception, timeout,
\* empty or blank response) updates the failures store for its provider: in
\* the step that ends such a probe the store gets a record for the provider,
\* and when a cycle returns every catalog provider that is not in the new
\* working set has a record.
C19_FailedProbeRecorded ==
    /\ [][\A t \in Invocations, p \in Providers :
            (ProbeEnds(t, p) /\ ~Passing(probe_ret'[t][p])) =>
                provider_failures'[p] # None]_vars
    /\ [](\A t \in Invocations :
            (last_step[1] = "returned" /\ last_step[2] = t) =>
                \A p \in Providers \ handed[t] : provider_failures[p] # None)

(***************************************************************************)
(* Further claims on the completion handler, checked under Spec            *)
(***************************************************************************)
\* the caller gave neither the model nor the provider
Fallback == requests > 0 /\ params.model = None /\ params.provider = None

\* C18: in fallback mode a failure of chat.create is never surfaced to the
\* caller; the only error the request can end with is the exhaustion /
\* no-candidate error, and once a pair has been attempted that error names
\* the last (model, provider) pair attempted.
C18_ErrorNamesLastAttempted ==
    (Fallback /\ rpc = "raised") =>
        IF calls = 0
        THEN response.body = NotFound
        ELSE response.body = Exhausted(prev_call.model, prev_call.provider)

\* the step is a fallback call whose response holds the service's public IP
FlaggedCall ==
    /\ rpc = "calling"
    /\ nofail
    /\ calls' = calls + 1
    /\ prev_call'.outcome.kind = "text"
    /\ Strip(prev_call'.outcome.text) # <<>>
    /\ Flagged(prev_call'.outcome.text)

\* C20: in fallback mode, after a response holding the service's public IP
\* came from (model_name, provider_name), the request keeps only the first
\* such response, and its next call goes to another pair than the flagged one.
C20_FlaggedPairNotRetried ==
    [][FlaggedCall =>
         /\ ip_detected_response' =
                IF ip_detected_response = NoResponse
                THEN CompletionResponse(
                         adapt_response(model_name, prev_call'.outcome.text),
                         model_name, provider_name)
                ELSE ip_detected_response
         /\ rpc' = "calling" =>
                <<model_name', provider_name'>> # <<model_name, provider_name>>]_vars

\* the fallback-mode request has ended, its last chat.create call gave no
\* genuine response, and an IP-flagged response had been captured
EndedWithCaptured ==
    /\ nofail
    /\ rpc \in {"returned", "raised"}
    /\ calls >= 1
    /\ ip_detected_response # NoResponse
    /\ ~(/\ prev_call.outcome.kind = "text"
         /\ Strip(prev_call.outcome.text) # <<>>
         /\ ~Flagged(prev_call.outcome.text))

\* C21: a fallback-mode request that ends without a genuine response (the
\* attempts are used up, or the selector finds no candidate during a retry)
\* after an IP-flagged response was captured returns the captured response
\* and records its pair in the success cache; it fails only when none was
\* captured.
C21_CapturedResponseReturned ==
    EndedWithCaptured =>
        /\ rpc = "returned"
        /\ response.body = ip_detected_response
        /\ <<ip_detected_response.model, ip_detected_response.provider>>
               \in CachePairs(success_cache)

\* the models the selector's loop reaches (their default provider resolves),
\* in the order of BEST_MODELS_ORDERED, and the ones an offset passes over
Resolvable == SelectSeq(BEST_MODELS_ORDERED, LAMBDA m : default_provider[m] # Unresolved)
SkippedModels(offset) ==
    {Resolvable[i] : i \in 1..(IF offset < Len(Resolvable) THEN offset ELSE Len(Resolvable))}

\* the step is a chat.create call of a fallback-mode request after which the
\* handler excludes the pair and asks the selector again, with offset = attempt
RetryStep ==
    /\ nofail
    /\ rpc = "calling"
    /\ calls' = calls + 1
    /\ \/ prev_call'.outcome.kind # "text"
       \/ Strip(prev_call'.outcome.text) = <<>>

\* C22: when the retry loop asks the selector again with offset = attempt, a
\* model is passed over only if it is exhausted for this request (the selector
\* finds no provider for it outside the exclusion set), so the request does
\* not fail while the selector, asked without offset, still has a pair that
\* was not tried and attempts are left.
C22_SkipsOnlyExhausted ==
    /\ [][RetryStep =>
            \A m \in SkippedModels(attempt) :
                TryModel(m, failed_combinations', success_cache',
                         all_working_provider_names, default_provider[m], now) = None]_vars
    /\ []((nofail /\ rpc = "raised" /\ calls >= 1 /\ attempt + 1 < MAX_ATTEMPTS) =>
            get_nofail_params_excluding_failed(
                failed_combinations, 0, success_cache,
                all_working_provider_names, default_provider, now) = NotFound)

(***************************************************************************)
(* The prober under the scheduling of the event loop                       *)
(***************************************************************************)
\* The event loop runs every task that is ready: a probe the semaphore
\* admits starts, a pending ai_respond call ends (asyncio.timeout(5) bounds
\* it), the producer and the consumer take their next step, the timer of
\* asyncio.timeout(5 * 60) fires while the consumer waits, and the invocation
\* resumes once asyncio.gather has its result.  The triggers and the
\* completion requests come from outside: nothing makes them happen.
ProbeFairness ==
    \A t \in Invocations :
        /\ WF_vars(\E p \in Providers : ProbeStart(t, p))
        /\ \A p \in Providers :
               WF_vars(\E o \in ProbeOutcomes : ProbeReturn(t, p, o))
        /\ WF_vars(ProducerGathered(t))
        /\ WF_vars(ProducerRaise(t))
        /\ WF_vars(ProducerJoined(t))
        /\ WF_vars(ConsumerGet(t))
        /\ WF_vars(ConsumerTimeout(t))
        /\ WF_vars(CycleRaise(t))
        /\ WF_vars(CycleFinish(t))

\* the prober alone: no completion request writes the success cache meanwhile
NextProbeLive ==
    \/ \E t \in Invocations : update_working_providers(t)
    \/ \E t \in Invocations, p \in Providers : ProbeStart(t, p)
    \/ \E t \in Invocations, p \in Providers, o \in ProbeOutcomes : ProbeReturn(t, p, o)
    \/ \E t \in Invocations : ProducerGathered(t)
    \/ \E t \in Invocations : ProducerRaise(t)
    \/ \E t \in Invocations : ProducerJoined(t)
    \/ \E t \in Invocations : ConsumerGet(t)
    \/ \E t \in Invocations : ConsumerTimeout(t)
    \/ \E t \in Invocations : CycleRaise(t)
    \/ \E t \in Invocations : CycleFinish(t)

SpecProbeLive == InitProbe /\ [][NextProbeLive]_vars /\ ProbeFairness

\* C23: every probe cycle that starts eventually ends, normally or by an
\* exception of a probe or of the overall timeout, and has then released the
\* lock; the lock is held only while a cycle runs, so a trigger declines only
\* while a cycle is running and one issued after the cycle has ended runs a
\* new cycle.
C23_CycleEndsAndReleases ==
    /\ \A t \in Invocations :
           (upc[t] = "running") ~> (upc[t] \in {"returned", "raised"} /\ ~lock)
    /\ [](lock <=> Running # {})
    /\ [](last_step[1] = "declined" => Running # {})
    /\ [][\A t \in Invocations :
            (~lock /\ upc[t] # "running" /\ upc'[t] # upc[t] /\ upc'[t] # "idle") =>
                upc'[t] = "running" /\ lock']_vars

\* a cycle is running, none of its probes has started, and probes of an
\* earlier cycle, which has ended, were made
C23_Witness ==
    \E t \in Invocations :
        /\ upc[t] = "running"
        /\ lock
        /\ \A p \in Providers : probe[t][p] = "waiting"
        /\ probes >= 1

============================================================================
